---- MODULE Spec2Model ----
(***************************************************************************)
(* Model of .github/utils/parse_version.py: the pure function              *)
(* parse_version and the command-line entry point main.                    *)
(*                                                                         *)
(* A Python str is modelled as a sequence of one-character strings, a      *)
(* dict as the sequence of its (key, value) items in insertion order, and  *)
(* a process run as the steps of main: read sys.argv[1], call              *)
(* parse_version, print the items one by one, terminate.                   *)
(***************************************************************************)
EXTENDS Integers, Sequences, FiniteSets, TLC

VARIABLES argv, pc, version_input, parsed, idx, stdout, error, exitcode

vars == <<argv, pc, version_input, parsed, idx, stdout, error, exitcode>>

(* ---------------------------- bounds ---------------------------------- *)
\* largest number of 'v' characters put in front of a generated input
MaxV == 2
\* largest number of pieces concatenated into a generated input
MaxPieces == 5
\* largest number of command-line arguments after the script name
MaxArgs == 2

(* ------------------------ python str helpers -------------------------- *)
None == "None"

\* str.lstrip(chars): drop the longest prefix made of characters in chars
RECURSIVE lstrip(_, _)
lstrip(s, chars) ==
    IF s = <<>> THEN s
    ELSE IF Head(s) \in chars THEN lstrip(Tail(s), chars)
    ELSE s

\* index of the first occurrence of character c in s, 0 when absent
RECURSIVE find(_, _)
find(s, c) ==
    IF s = <<>> THEN 0
    ELSE IF Head(s) = c THEN 1
    ELSE LET r == find(Tail(s), c) IN IF r = 0 THEN 0 ELSE r + 1

\* str.split(sep) for a one-character separator: always at least one part
RECURSIVE split(_, _)
split(s, sep) ==
    LET i == find(s, sep) IN
    IF i = 0 THEN <<s>>
    ELSE <<SubSeq(s, 1, i - 1)>> \o split(SubSeq(s, i + 1, Len(s)), sep)

\* the `in` operator on two strings: substring containment
contains(s, sub) ==
    \E i \in 0..(Len(s) - Len(sub)) : SubSeq(s, i + 1, i + Len(sub)) = sub

\* str(bool): 'True' or 'False'
str_bool(b) ==
    IF b THEN <<"T", "r", "u", "e">> ELSE <<"F", "a", "l", "s", "e">>

\* str.lower() on the characters that occur in str(bool)
lower_char(c) ==
    IF c = "T" THEN "t" ELSE IF c = "F" THEN "f" ELSE c

lower(s) == [i \in 1..Len(s) |-> lower_char(s[i])]

(* --------------------------- parse_version ---------------------------- *)
RC1 == <<"r", "c", "1">>

K_version == <<"v", "e", "r", "s", "i", "o", "n">>
K_major_minor == <<"m", "a", "j", "o", "r", "_", "m", "i", "n", "o", "r">>
K_release_branch ==
    <<"r", "e", "l", "e", "a", "s", "e", "_", "b", "r", "a", "n", "c", "h">>
K_is_minor == <<"i", "s", "_", "m", "i", "n", "o", "r">>
K_is_first_rc == <<"i", "s", "_", "f", "i", "r", "s", "t", "_", "r", "c">>

\* version = version_input.lstrip("v")
strip_v_removeprefix(s0) ==
    IF s0 # <<>> /\ Head(s0) = "v"
    THEN Tail(s0) ELSE s0

strip_v_both_ends(s0) ==
    LET l == lstrip(s0, {"v"})
        RECURSIVE rstrip(_)
        rstrip(s) == IF s # <<>> /\ s[Len(s)] = "v"
                     THEN rstrip(SubSeq(s, 1, Len(s) - 1)) ELSE s
    IN rstrip(l)

strip_v_charset(s0) == lstrip(s0, {"v", "r"})

strip_v(s0) == lstrip(s0, {"v"})

\* if len(parts) != 3: raise ValueError
valid_format_nonempty_patch(parts) == Len(parts) = 3 /\ parts[3] # <<>>

valid_format(parts) == Len(parts) = 3

\* patch = patch.split("-")[0]
patch_of_unsplit(third) == third

patch_of(third) == split(third, "-")[1]

\* release_branch = f"v{major}.{minor}.x"
release_branch_of_major_only(major, minor) == <<"v">> \o major \o <<".", "x">>

release_branch_of(major, minor) ==
    <<"v">> \o major \o <<".">> \o minor \o <<".", "x">>

\* "major_minor": f"{major}.{minor}"
major_minor_of(major, minor) == major \o <<".">> \o minor

\* is_minor = patch == "0"
is_minor_of(patch) == patch = <<"0">>

\* is_first_rc = is_minor and "rc1" in version
is_first_rc_of_endswith(is_minor, version) ==
    /\ is_minor
    /\ Len(version) >= 3
    /\ SubSeq(version, Len(version) - 2, Len(version)) = RC1

is_first_rc_of(is_minor, version) == is_minor /\ contains(version, RC1)

\* str(flag).lower()
bool_token_not_lowered(b) == str_bool(b)

bool_token(b) == lower(str_bool(b))

\* The whole function: either raises ValueError or returns the dict, given
\* as its items in insertion order.
parse_version(v_input) ==
    LET version == strip_v(v_input)
        parts == split(version, ".")
    IN  IF ~valid_format(parts)
        THEN [exc |-> "ValueError", value |-> <<>>]
        ELSE LET major == parts[1]
                 minor == parts[2]
                 patch == patch_of(parts[3])
                 release_branch == release_branch_of(major, minor)
                 is_minor == is_minor_of(patch)
                 is_first_rc == is_first_rc_of(is_minor, version)
             IN [exc |-> None,
                 value |-> << <<K_version, version>>,
                              <<K_major_minor, major_minor_of(major, minor)>>,
                              <<K_release_branch, release_branch>>,
                              <<K_is_minor, bool_token(is_minor)>>,
                              <<K_is_first_rc, bool_token(is_first_rc)>> >>]

\* d[key] on a dict given by its items
RECURSIVE dict_get(_, _)
dict_get(d, key) ==
    IF d = <<>> THEN None
    ELSE IF Head(d)[1] = key THEN Head(d)[2]
    ELSE dict_get(Tail(d), key)

(* ------------------------------- main --------------------------------- *)
\* sys.argv[i]: IndexError when the list is too short (0-based index)
sys_argv_get(a, i) ==
    IF i + 1 <= Len(a) THEN [exc |-> None, value |-> a[i + 1]]
    ELSE [exc |-> "IndexError", value |-> <<>>]

\* version_input = sys.argv[1]
read_version_input_second(a) == sys_argv_get(a, 2)

read_version_input(a) == sys_argv_get(a, 1)

\* print(f"{key}={value}")
format_line(item) == item[1] \o <<"=">> \o item[2]

\* exit status of the interpreter: 1 after an uncaught exception, else 0
exit_status_always_zero(exc) == 0

exit_status(exc) == IF exc = None THEN 0 ELSE 1

(* ------------------------------ inputs -------------------------------- *)
Pieces == { <<".">>, <<"-">>, <<"0">>, <<"1">>, <<"v">>, RC1 }

RECURSIVE Flatten(_)
Flatten(ps) == IF ps = <<>> THEN <<>> ELSE Head(ps) \o Flatten(Tail(ps))

Vs(k) == [i \in 1..k |-> "v"]

Inputs ==
    { Vs(k) \o Flatten(ps) :
        k \in 0..MaxV,
        ps \in UNION { [1..n -> Pieces] : n \in 0..MaxPieces } }

ScriptName == <<"p", "y">>
ExtraArg == <<"x">>

ArgLists ==
    { <<>> } \cup
    { <<s>> \o [i \in 1..n |-> ExtraArg] : s \in Inputs, n \in 0..(MaxArgs - 1) }

(* ------------------------------ actions ------------------------------- *)
Init ==
    /\ argv \in { <<ScriptName>> \o args : args \in ArgLists }
    /\ pc = "main"
    /\ version_input = None
    /\ parsed = None
    /\ idx = 0
    /\ stdout = <<>>
    /\ error = None
    /\ exitcode = None

\* version_input = sys.argv[1]
ReadArgv ==
    /\ pc = "main"
    /\ LET r == read_version_input(argv) IN
        IF r.exc # None
        THEN /\ error' = r.exc
             /\ pc' = "raise"
             /\ UNCHANGED version_input
        ELSE /\ version_input' = r.value
             /\ pc' = "call"
             /\ UNCHANGED error
    /\ UNCHANGED <<argv, parsed, idx, stdout, exitcode>>

\* parsed = parse_version(version_input)
CallParse ==
    /\ pc = "call"
    /\ LET r == parse_version(version_input) IN
        IF r.exc # None
        THEN /\ error' = r.exc
             /\ pc' = "raise"
             /\ UNCHANGED <<parsed, idx>>
        ELSE /\ parsed' = r.value
             /\ idx' = 1
             /\ pc' = "loop"
             /\ UNCHANGED error
    /\ UNCHANGED <<argv, version_input, stdout, exitcode>>

\* one iteration of: for key, value in parsed.items(): print(...)
PrintItem ==
    /\ pc = "loop"
    /\ idx <= Len(parsed)
    /\ stdout' = Append(stdout, format_line(parsed[idx]))
    /\ idx' = idx + 1
    /\ UNCHANGED <<argv, pc, version_input, parsed, error, exitcode>>

\* the process ends: normal return of main, or an uncaught exception
Terminate ==
    /\ \/ pc = "raise"
       \/ pc = "loop" /\ idx > Len(parsed)
    /\ exitcode' = exit_status(error)
    /\ pc' = "done"
    /\ UNCHANGED <<argv, version_input, parsed, idx, stdout, error>>

Next == ReadArgv \/ CallParse \/ PrintItem \/ Terminate

Spec == Init /\ [][Next]_vars

(* ------------------- vocabulary of the properties --------------------- *)
TrueTok == <<"t", "r", "u", "e">>
FalseTok == <<"f", "a", "l", "s", "e">>

\* number of 'v' characters at the front of s
LeadV(s) == Cardinality({ i \in 1..Len(s) : \A j \in 1..i : s[j] = "v" })

\* s without its leading 'v' characters
Ver(s) == SubSeq(s, LeadV(s) + 1, Len(s))

DotAt(s) == { i \in 1..Len(s) : s[i] = "." }

\* splitting on '.' yields exactly 3 parts iff there are exactly 2 dots
ThreeParts(s) == Cardinality(DotAt(s)) = 2

FirstDot(s) == CHOOSE i \in DotAt(s) : \A j \in DotAt(s) : i <= j
LastDot(s) == CHOOSE i \in DotAt(s) : \A j \in DotAt(s) : j <= i

MajorText(s) == SubSeq(s, 1, FirstDot(s) - 1)
MinorText(s) == SubSeq(s, FirstDot(s) + 1, LastDot(s) - 1)
ThirdText(s) == SubSeq(s, LastDot(s) + 1, Len(s))

HasRC1(s) ==
    \E i \in 1..(Len(s) - 2) : s[i] = "r" /\ s[i + 1] = "c" /\ s[i + 2] = "1"

\* parse_version has been called and has returned or raised
Called == version_input # None /\ pc # "call"
\* parse_version has returned a record
Parsed == parsed # None

F_version == dict_get(parsed, K_version)
F_major_minor == dict_get(parsed, K_major_minor)
F_release_branch == dict_get(parsed, K_release_branch)
F_is_minor == dict_get(parsed, K_is_minor)
F_is_first_rc == dict_get(parsed, K_is_first_rc)

FieldKeys ==
    <<K_version, K_major_minor, K_release_branch, K_is_minor, K_is_first_rc>>

(* ------------------------------ claims -------------------------------- *)

C2_VersionIsStripped ==
    Parsed =>
        LET k == Len(version_input) - Len(F_version) IN
        /\ k >= 0
        /\ F_version = SubSeq(version_input, k + 1, Len(version_input))
        /\ \A i \in 1..k : version_input[i] = "v"
        /\ F_version = <<>> \/ F_version[1] # "v"

\* two or more leading 'v' removed, a '-' suffix and a later 'v' kept
C2_Witness ==
    /\ Parsed
    /\ Len(version_input) - Len(F_version) >= 2
    /\ \E i, j \in 1..Len(F_version) : F_version[i] = "-" /\ F_version[j] = "v"

\* C3: is_minor is true if and only if the third dot-separated part, cut at
\* its first '-', is exactly the text "0" (a textual comparison).
C3_IsMinorIff ==
    Parsed =>
        LET third == ThirdText(F_version) IN
        /\ F_is_minor \in {TrueTok, FalseTok}
        /\ (F_is_minor = TrueTok) <=>
              \/ third = <<"0">>
              \/ Len(third) >= 2 /\ third[1] = "0" /\ third[2] = "-"

\* a third part '0-...' gave is_minor = true
C3_Witness ==
    /\ Parsed
    /\ F_is_minor = TrueTok
    /\ Len(ThirdText(F_version)) >= 2

\* C4: is_first_rc is true if and only if is_minor is true and the stripped
\* version contains 'rc1' anywhere; so is_first_rc implies is_minor.
C4_IsFirstRcIff ==
    Parsed =>
        /\ F_is_first_rc \in {TrueTok, FalseTok}
        /\ (F_is_first_rc = TrueTok) <=>
              (F_is_minor = TrueTok /\ HasRC1(F_version))
        /\ F_is_first_rc = TrueTok => F_is_minor = TrueTok

\* is_first_rc = true although the version does not end in 'rc1'
C4_Witness ==
    /\ Parsed
    /\ F_is_first_rc = TrueTok
    /\ F_version[Len(F_version)] # "1"

\* C5: major_minor is major + '.' + minor and release_branch is
\* 'v' + major + '.' + minor + '.x', from the unmodified text of the first
\* two parts; release_branch = 'v' + major_minor + '.x'.
C5_BranchFromMajorMinor ==
    Parsed =>
        LET major == MajorText(F_version)
            minor == MinorText(F_version)
        IN
        /\ F_major_minor = major \o <<".">> \o minor
        /\ F_release_branch = <<"v">> \o major \o <<".">> \o minor \o <<".", "x">>
        /\ F_release_branch = <<"v">> \o F_major_minor \o <<".", "x">>

\* a major with a leading zero and an empty minor went through unchanged
C5_Witness ==
    /\ Parsed
    /\ Len(F_major_minor) >= 2
    /\ F_major_minor[1] = "0"
    /\ F_major_minor[2] = "0"
    /\ MinorText(F_version) = <<>>

\* C6: a successful run writes the five 'key=value' lines in the order
\* version, major_minor, release_branch, is_minor, is_first_rc, the two
\* booleans as the tokens 'true' or 'false', and ends with exit code 0.
C6_FiveLinesInOrder ==
    (pc \in {"loop", "done"} /\ error = None) =>
        /\ Len(parsed) = 5
        /\ Len(stdout) = idx - 1
        /\ \A i \in 1..Len(stdout) :
              /\ parsed[i][1] = FieldKeys[i]
              /\ stdout[i] = FieldKeys[i] \o <<"=">> \o parsed[i][2]
        /\ \A i \in {4, 5} \cap (1..Len(stdout)) :
              \E tok \in {TrueTok, FalseTok} :
                  stdout[i] = FieldKeys[i] \o <<"=">> \o tok
        /\ pc = "done" => Len(stdout) = 5 /\ exitcode = 0

\* a run has ended after printing is_minor=true and is_first_rc=false
C6_Witness ==
    /\ pc = "done"
    /\ error = None
    /\ Len(stdout) = 5
    /\ stdout[4] = K_is_minor \o <<"=">> \o TrueTok
    /\ stdout[5] = K_is_first_rc \o <<"=">> \o FalseTok

\* C7 as stated: every run, whatever its argument list, either succeeds or
\* fails with the format error of a version that is not three parts.
C7_SingleErrorKind ==
    pc = "done" =>
        \/ error = None
        \/ /\ error = "ValueError"
           /\ version_input # None
           /\ ~ThreeParts(Ver(version_input))

\* C7 amended: a run started with at least one argument either succeeds or
\* fails with the format error; a run started with no argument fails with
\* IndexError on sys.argv[1].
C7_ErrorKindsByArgv ==
    pc = "done" =>
        \/ /\ error = None
           /\ Len(argv) >= 2
           /\ ThreeParts(Ver(argv[2]))
        \/ /\ error = "ValueError"
           /\ Len(argv) >= 2
           /\ ~ThreeParts(Ver(argv[2]))
        \/ /\ error = "IndexError"
           /\ Len(argv) = 1

\* a run without argument has ended with IndexError
C7_Witness ==
    /\ pc = "done"
    /\ error = "IndexError"
    /\ exitcode = 1
    /\ stdout = <<>>

\* C8: with a malformed version argument the run ends with a non-zero exit
\* status, the error being propagated, and nothing is ever written to
\* standard output; the output of a finished run is five lines or none.
C8_MalformedExitsNonZero ==
    /\ (version_input # None /\ ~ThreeParts(Ver(version_input))) =>
          /\ stdout = <<>>
          /\ pc = "done" => (exitcode # 0 /\ error = "ValueError")
    /\ pc = "done" => Len(stdout) \in {0, 5}

\* a run on a version of four parts has ended
C8_Witness ==
    /\ pc = "done"
    /\ version_input # None
    /\ Cardinality(DotAt(Ver(version_input))) = 3
    /\ exitcode = 1

\* C9: parsing the 'version' field of a result gives the same record, and
\* so does parsing the input with any number of 'v' put in front.
C9_StripIdempotent ==
    Parsed =>
        /\ parse_version(F_version) = [exc |-> None, value |-> parsed]
        /\ \A k \in 1..(MaxV + 1) :
              parse_version(Vs(k) \o version_input) =
                  [exc |-> None, value |-> parsed]

\* an input with two or more leading 'v' has been parsed
C9_Witness ==
    /\ Parsed
    /\ LeadV(version_input) >= 2
    /\ F_is_minor = FalseTok

\* C10: 'rc1' occurs in the raw input if and only if it occurs in the
\* stripped version, so is_first_rc is true iff is_minor is true and the
\* raw input contains 'rc1'.
C10_Rc1RawIffStripped ==
    Parsed =>
        /\ HasRC1(version_input) <=> HasRC1(F_version)
        /\ (F_is_first_rc = TrueTok) <=>
              (F_is_minor = TrueTok /\ HasRC1(version_input))

\* a 'v'-prefixed first-RC input has been parsed
C10_Witness ==
    /\ Parsed
    /\ LeadV(version_input) >= 1
    /\ HasRC1(version_input)
    /\ F_is_first_rc = TrueTok

====
